---- MODULE Spec2Model ----
(***************************************************************************)
(* Model of the tree of sidekick/tree/node.py: the units (Leaf, Node),     *)
(* their _parent back-references and _children lists, and the public       *)
(* operations that change them (constructors, the parent setter, detach,   *)
(* the Children view's __setitem__, __delitem__ and insert, and the        *)
(* children setter), of its traversals and queries, and of retry in        *)
(* sidekick/functools/functions.py.                                        *)
(*                                                                         *)
(* Units live in a heap indexed by identity (1..MaxUnits); `is` is         *)
(* equality of identities.  An operation is a function from a heap to a    *)
(* heap and an outcome ("ok" or the name of the exception raised); the     *)
(* actions apply these functions to the state variables.                   *)
(***************************************************************************)
EXTENDS Integers, Sequences, FiniteSets, TLC

\* ---- bounds -------------------------------------------------------------
MaxUnits == 4      \* identities available to the heap
MaxSteps == 4      \* operations per behaviour
MaxArgs == 2       \* length of a sequence passed as an argument
MaxVal == 1        \* plain (non-unit) payloads are 1..MaxVal

VARIABLES kind, parent, children, value, last, step, call

vars == <<kind, parent, children, value, last, step, call>>

Ids == 1..MaxUnits
None == 0
PlainVals == 1..MaxVal

\* ---- values passed to and held by the program ----------------------------
NoneObj == [tag |-> "none", v |-> 0]
UnitObj(u) == [tag |-> "unit", v |-> u]
PlainObj(p) == [tag |-> "plain", v |-> p]

\* The heap as one value, so that the operations can thread it.
Heap == [kind |-> kind, parent |-> parent, children |-> children, value |-> value]

Units(h) == {u \in DOMAIN h.kind : h.kind[u] # "free"}
Nodes(h) == {u \in DOMAIN h.kind : h.kind[u] = "Node"}
Free(h) == {u \in DOMAIN h.kind : h.kind[u] = "free"}
NewId(h) == CHOOSE u \in Free(h) : \A w \in Free(h) : u <= w

Res(h, res) == [h |-> h, res |-> res]

\* isinstance(x, NodeOrLeaf) and isinstance(x, Node)
IsUnit(x) == x.tag = "unit"
IsNode(h, x) == x.tag = "unit" /\ h.kind[x.v] = "Node"

Range(s) == {s[k] : k \in DOMAIN s}

\* ---- constructors --------------------------------------------------------
\* NodeOrLeaf.__init__ as reached from Leaf.__init__: the parent keyword is
\* stored in _parent; the parent's child list is not touched.
LeafInit(h, id, val, par) ==
  [h EXCEPT !.kind[id] = "Leaf", !.parent[id] = par,
            !.children[id] = <<>>, !.value[id] = val]

\* NodeOrLeaf.__init__ and the first lines of Node.__init__.
NodeInit0(h, id, par) ==
  [h EXCEPT !.kind[id] = "Node", !.parent[id] = par,
            !.children[id] = <<>>, !.value[id] = NoneObj]

\* The loop of Node.__init__ over the children argument, from position k.
RECURSIVE NodeInitLoop(_, _, _, _)
NodeInitLoop(h, self, cs, k) ==
  IF k > Len(cs) THEN Res(h, "ok")
  ELSE LET c == cs[k] IN
    IF IsUnit(c)
    THEN IF h.parent[c.v] # None
         THEN Res(h, "TreeError")
         ELSE NodeInitLoop([h EXCEPT !.parent[c.v] = self,
                                     !.children[self] = Append(@, c.v)],
                           self, cs, k + 1)
    ELSE LET id == NewId(h)
             h1 == LeafInit(h, id, c, None)
         IN NodeInitLoop([h1 EXCEPT !.parent[id] = self,
                                    !.children[self] = Append(@, id)],
                         self, cs, k + 1)

NodeInit(h, id, cs, par) == NodeInitLoop(NodeInit0(h, id, par), id, cs, 1)

\* ---- ancestors -----------------------------------------------------------
\* iter_ancestors, cut after `fuel` elements.  A chain without a cycle has
\* fewer than MaxUnits elements, so a result of length MaxUnits stands for
\* the generator that never ends.
RECURSIVE iter_ancestors(_, _, _)
iter_ancestors(h, node, fuel) ==
  IF h.parent[node] = None \/ fuel = 0 THEN <<>>
  ELSE <<h.parent[node]>> \o iter_ancestors(h, h.parent[node], fuel - 1)

Ancestors(h, node) == iter_ancestors(h, node, MaxUnits)

\* any(self is ancestor for ancestor in node.iter_ancestors()):
\* "True", "False", or "hang" when the chain is endless and self is not on it.
is_ancestor_of(h, self, node) ==
  LET chain == Ancestors(h, node) IN
  IF self \in Range(chain) THEN "True"
  ELSE IF Len(chain) = MaxUnits THEN "hang"
  ELSE "False"

\* ---- children control ----------------------------------------------------
\* Node.discard_child with raises=False.  The loop header unpacks each
\* element of _children into (idx, elem); the elements are units, which are
\* not iterable, so the first element raises TypeError.  With an empty list
\* the loop body never runs and the else branch returns.  (Only Leaf and
\* Node units are modelled; an SExpr child would be iterable.)
discard_child(h, n, child) ==
  IF h.children[n] = <<>> THEN Res(h, "ok") ELSE Res(h, "TypeError")

\* NodeOrLeaf.detach
detach(h, u) ==
  IF h.parent[u] # None THEN discard_child(h, h.parent[u], u) ELSE Res(h, "ok")

\* Node._check_child: the unit to store, after the heap in which it exists.
_check_child(h, n, x) ==
  IF ~IsNode(h, x)
  THEN LET id == NewId(h)
       IN [h |-> LeafInit(h, id, x, None), res |-> "ok", unit |-> id]
  ELSE IF x.v \in Range(h.children[n])
       THEN [h |-> h, res |-> "ValueError", unit |-> None]
       ELSE [h |-> h, res |-> "ok", unit |-> x.v]

\* list.insert for an index >= 0 (an index past the end appends)
ListInsert(s, i, x) ==
  LET k == IF i > Len(s) THEN Len(s) ELSE i
  IN SubSeq(s, 1, k) \o <<x>> \o SubSeq(s, k + 1, Len(s))

\* Children.insert
insert(h, n, index, x) ==
  LET c == _check_child(h, n, x) IN
  IF c.res # "ok" THEN Res(h, c.res)
  ELSE Res([c.h EXCEPT !.children[n] = ListInsert(@, index, c.unit)], "ok")

\* MutableSequence.append, which is insert(len(self), x)
append(h, n, x) == insert(h, n, Len(h.children[n]), x)

\* ---- the parent setter ---------------------------------------------------
parent_setter(h, u, x) ==
  IF x.tag = "none" THEN Res([h EXCEPT !.parent[u] = None], "ok")
  ELSE IF ~IsNode(h, x) THEN Res(h, "TypeError")
  ELSE IF x.v = h.parent[u] THEN Res(h, "ok")
  ELSE LET a == is_ancestor_of(h, u, x.v)
           b == is_ancestor_of(h, x.v, u)
       IN IF a = "hang" THEN Res(h, "hang")
          ELSE IF a = "True" THEN Res(h, "ValueError")
          ELSE IF b = "hang" THEN Res(h, "hang")
          ELSE IF b = "True" \/ u = x.v THEN Res(h, "ValueError")
          ELSE LET d == detach(h, u) IN
               IF d.res # "ok" THEN d
               ELSE append(d.h, x.v, UnitObj(u))

\* ---- the Children view ---------------------------------------------------
\* Children(owner, owner._children): the view holds the list itself, so
\* reading it gives the list's contents at the time of the read.
Children(h, n) == h.children[n]

\* Children.__setitem__ with an int index i >= 0
setitem(h, n, i, x) ==
  LET c == _check_child(h, n, x) IN
  IF c.res # "ok" THEN Res(h, c.res)
  ELSE IF i >= Len(h.children[n]) THEN Res(h, "IndexError")
  ELSE Res([c.h EXCEPT !.children[n][i + 1] = c.unit], "ok")

\* [self._owner._check_child(node) for node in obj], from position k; the
\* owner's list does not change while the comprehension runs.
RECURSIVE CheckAll(_, _, _, _, _)
CheckAll(h, n, xs, k, acc) ==
  IF k > Len(xs) THEN [h |-> h, res |-> "ok", units |-> acc]
  ELSE LET c == _check_child(h, n, xs[k]) IN
    IF c.res # "ok" THEN [h |-> h, res |-> c.res, units |-> <<>>]
    ELSE CheckAll(c.h, n, xs, k + 1, Append(acc, c.unit))

\* Children.__setitem__ with the slice lo:hi, 0 <= lo <= hi <= len
setslice(h, n, lo, hi, xs) ==
  LET c == CheckAll(h, n, xs, 1, <<>>) IN
  IF c.res # "ok" THEN Res(h, c.res)
  ELSE Res([c.h EXCEPT !.children[n] =
              SubSeq(@, 1, lo) \o c.units \o SubSeq(@, hi + 1, Len(@))], "ok")

\* Children.__delitem__ with an int index i >= 0.  A removed Leaf is not a
\* Node, so the else branch iterates over it, and a Leaf is not iterable.
delitem(h, n, i) ==
  IF i >= Len(h.children[n]) THEN Res(h, "IndexError")
  ELSE LET data == Children(h, n)[i + 1] IN
    IF h.kind[data] = "Node"
    THEN Res([h EXCEPT !.parent[data] = None,
                       !.children[n] = SubSeq(@, 1, i) \o SubSeq(@, i + 2, Len(@))],
             "ok")
    ELSE Res(h, "TypeError")

\* Children.__delitem__ with the slice lo:hi, 0 <= lo <= hi <= len
delslice(h, n, lo, hi) ==
  LET data == SubSeq(Children(h, n), lo + 1, hi) IN
  Res([h EXCEPT !.parent = [u \in Ids |-> IF u \in Range(data) THEN None ELSE @[u]],
                !.children[n] = SubSeq(@, 1, lo) \o SubSeq(@, hi + 1, Len(@))],
      "ok")

\* ---- the children setter -------------------------------------------------
\* old_children = self.children is a view on self._children, read when the
\* handler runs.
old_children(hBefore, hNow, n) == Children(hNow, n)

\* except Exception: self._children[:] = old_children; raise
children_restore(hBefore, hNow, n, exc) ==
  Res([hNow EXCEPT !.children[n] = old_children(hBefore, hNow, n)], exc)

\* for child in children: child.parent = self, from position k, and the
\* assertion after the loop.  A plain value has no parent attribute.
RECURSIVE children_loop(_, _, _, _, _)
children_loop(hBefore, h, n, xs, k) ==
  IF k > Len(xs)
  THEN IF Len(Children(h, n)) = Len(xs) THEN Res(h, "ok")
       ELSE children_restore(hBefore, h, n, "AssertionError")
  ELSE IF ~IsUnit(xs[k]) THEN children_restore(hBefore, h, n, "AttributeError")
  ELSE LET r == parent_setter(h, xs[k].v, UnitObj(n)) IN
    IF r.res = "hang" THEN r
    ELSE IF r.res # "ok" THEN children_restore(hBefore, r.h, n, r.res)
    ELSE children_loop(hBefore, r.h, n, xs, k + 1)

children_setter(h, n, xs) ==
  children_loop(h, [h EXCEPT !.children[n] = <<>>], n, xs, 1)

\* ---- traversals ----------------------------------------------------------
\* A traversal is the finite sequence of units its generator yields.  A
\* predicate is the set of units it accepts; max_depth is a number or INF.
INF == 1000
Dec(d) == IF d = INF THEN INF ELSE d - 1

\* `if this:` and `if this is not False:` for this in None, True, False
Truthy(this) == this = "True"
NotFalse(this) == this # "False"

RECURSIVE Flatten(_)
Flatten(ss) == IF ss = <<>> THEN <<>> ELSE Head(ss) \o Flatten(Tail(ss))

Reverse(s) == [k \in 1..Len(s) |-> s[Len(s) + 1 - k]]

\* _keep returning the list unfiltered whatever the predicate.
keep_everything(keep, lst) == lst

\* NodeOrLeaf._keep
_keep(keep, lst) == SelectSeq(lst, LAMBDA c : c \in keep)

RECURSIVE _iter_children_simple(_, _, _)
_iter_children_simple(h, self, yield_self) ==
  (IF Truthy(yield_self) THEN <<self>> ELSE <<>>)
  \o Flatten([k \in DOMAIN h.children[self] |->
                _iter_children_simple(h, h.children[self][k], "True")])

\* _iter_children_pre_order visiting the children from the last to the first.
RECURSIVE pre_order_reversed(_, _, _, _, _)
pre_order_reversed(h, self, this, keep, max_depth) ==
  IF self \notin keep \/ max_depth < 0 THEN <<>>
  ELSE (IF Truthy(this) THEN <<self>> ELSE <<>>)
       \o Flatten([k \in DOMAIN h.children[self] |->
            pre_order_reversed(h, Reverse(h.children[self])[k], "True", keep,
                               Dec(max_depth))])

RECURSIVE _iter_children_pre_order(_, _, _, _, _)
_iter_children_pre_order(h, self, this, keep, max_depth) ==
  IF self \notin keep \/ max_depth < 0 THEN <<>>
  ELSE (IF Truthy(this) THEN <<self>> ELSE <<>>)
       \o Flatten([k \in DOMAIN h.children[self] |->
            _iter_children_pre_order(h, h.children[self][k], "True", keep,
                                     Dec(max_depth))])

\* _iter_children_post_order yielding the unit before its children.
RECURSIVE post_order_self_first(_, _, _, _, _)
post_order_self_first(h, self, this, keep, max_depth) ==
  IF self \notin keep \/ max_depth < 0 THEN <<>>
  ELSE (IF Truthy(this) THEN <<self>> ELSE <<>>)
       \o Flatten([k \in DOMAIN h.children[self] |->
            post_order_self_first(h, h.children[self][k], "True", keep,
                                  Dec(max_depth))])

RECURSIVE _iter_children_post_order(_, _, _, _, _)
_iter_children_post_order(h, self, this, keep, max_depth) ==
  IF self \notin keep \/ max_depth < 0 THEN <<>>
  ELSE Flatten([k \in DOMAIN h.children[self] |->
            _iter_children_post_order(h, h.children[self][k], "True", keep,
                                      Dec(max_depth))])
       \o (IF Truthy(this) THEN <<self>> ELSE <<>>)

RECURSIVE _iter_children_in_order(_, _, _, _, _)
_iter_children_in_order(h, self, this, keep, max_depth) ==
  IF self \notin keep \/ max_depth < 0 THEN <<>>
  ELSE LET cs == h.children[self]
           rest == IF cs = <<>> THEN <<>> ELSE Tail(cs)
       IN (IF cs = <<>> THEN <<>>
           ELSE _iter_children_in_order(h, Head(cs), "True", keep, Dec(max_depth)))
          \o (IF NotFalse(this) THEN <<self>> ELSE <<>>)
          \o Flatten([k \in DOMAIN rest |->
               _iter_children_in_order(h, rest[k], "True", keep, Dec(max_depth))])

\* _iter_children_out_order yielding the remaining children from the last
\* to the first.
RECURSIVE out_order_mirrored(_, _, _, _, _)
out_order_mirrored(h, self, this, keep, max_depth) ==
  IF self \notin keep \/ max_depth < 0 THEN <<>>
  ELSE LET cs == h.children[self]
           rest == IF cs = <<>> THEN <<>> ELSE Reverse(SubSeq(cs, 1, Len(cs) - 1))
       IN (IF cs = <<>> THEN <<>>
           ELSE out_order_mirrored(h, cs[Len(cs)], "True", keep, Dec(max_depth)))
          \o (IF NotFalse(this) THEN <<self>> ELSE <<>>)
          \o Flatten([k \in DOMAIN rest |->
               out_order_mirrored(h, rest[k], "True", keep, Dec(max_depth))])

RECURSIVE _iter_children_out_order(_, _, _, _, _)
_iter_children_out_order(h, self, this, keep, max_depth) ==
  IF self \notin keep \/ max_depth < 0 THEN <<>>
  ELSE LET cs == h.children[self]
           rest == IF cs = <<>> THEN <<>> ELSE SubSeq(cs, 1, Len(cs) - 1)
       IN (IF cs = <<>> THEN <<>>
           ELSE _iter_children_out_order(h, cs[Len(cs)], "True", keep,
                                         Dec(max_depth)))
          \o (IF NotFalse(this) THEN <<self>> ELSE <<>>)
          \o Flatten([k \in DOMAIN rest |->
               _iter_children_out_order(h, rest[k], "True", keep, Dec(max_depth))])

\* The level-order loop descending only into the first unit of a generation.
RECURSIVE LevelLoopFirstOnly(_, _, _, _)
LevelLoopFirstOnly(h, cs, keep, max_depth) ==
  IF cs = <<>> \/ ~(max_depth > 0) THEN <<>>
  ELSE <<cs>> \o LevelLoopFirstOnly(h, _keep(keep, h.children[cs[1]]), keep,
                                    Dec(max_depth))

\* The while loop shared by the two level-order generators: the generations
\* from `children` on, each the kept children of the one before.
RECURSIVE LevelLoop(_, _, _, _)
LevelLoop(h, cs, keep, max_depth) ==
  IF cs = <<>> \/ ~(max_depth > 0) THEN <<>>
  ELSE <<cs>> \o LevelLoop(h,
                   _keep(keep, Flatten([k \in DOMAIN cs |-> h.children[cs[k]]])),
                   keep, Dec(max_depth))

_iter_group_level_order(h, self, this, keep, max_depth) ==
  IF self \notin keep \/ max_depth = 0 THEN <<>>
  ELSE (IF Truthy(this) THEN <<(<<self>>)>> ELSE <<>>)
       \o LevelLoop(h, _keep(keep, h.children[self]), keep, max_depth)

_iter_children_level_order(h, self, this, keep, max_depth) ==
  IF self \notin keep \/ max_depth = 0 THEN <<>>
  ELSE (IF Truthy(this) THEN <<self>> ELSE <<>>)
       \o Flatten(LevelLoop(h, _keep(keep, h.children[self]), keep, max_depth))

\* getattr(node, f'_iter_children_{attr}')(self, **kwargs)
Method(h, node, how, self, keep, max_depth) ==
  CASE how = "pre-order" -> _iter_children_pre_order(h, node, self, keep, max_depth)
    [] how = "post-order" -> _iter_children_post_order(h, node, self, keep, max_depth)
    [] how = "in-order" -> _iter_children_in_order(h, node, self, keep, max_depth)
    [] how = "out-order" -> _iter_children_out_order(h, node, self, keep, max_depth)
    [] how = "level-order" -> _iter_children_level_order(h, node, self, keep, max_depth)

\* NodeOrLeaf.iter_children.  kw says whether keep or max_depth was passed;
\* when neither was, they hold the defaults (every unit, INF).
iter_children(h, node, how, self, kw, keep, max_depth) ==
  IF how = "None" /\ ~kw THEN _iter_children_simple(h, node, self)
  ELSE Method(h, node, IF how = "None" THEN "pre-order" ELSE how, self, keep,
              max_depth)

\* NodeOrLeaf.iter_group with how None or "level-order"
iter_group(h, node, self, keep, max_depth) ==
  _iter_group_level_order(h, node, self, keep, max_depth)

\* ---- state ---------------------------------------------------------------
\* No call of a function wrapped by retry is under way.
NoCall == [pc |-> "idle"]

NoOp == [op |-> "init", u |-> None, x |-> NoneObj, xs |-> <<>>,
         i |-> 0, j |-> 0, res |-> "ok", ret |-> None]

Init ==
  /\ kind = [u \in Ids |-> "free"]
  /\ parent = [u \in Ids |-> None]
  /\ children = [u \in Ids |-> <<>>]
  /\ value = [u \in Ids |-> NoneObj]
  /\ last = NoOp
  /\ step = 0
  /\ call = NoCall

\* The program runs one operation after another; an operation that never
\* returns ends the run.
CanStep == step < MaxSteps /\ last.res # "hang"

Commit(h, l) ==
  /\ kind' = h.kind
  /\ parent' = h.parent
  /\ children' = h.children
  /\ value' = h.value
  /\ last' = l
  /\ step' = step + 1
  /\ call' = call

\* Arguments the caller can pass: a unit it holds, or a plain value.
Objs == {UnitObj(u) : u \in Units(Heap)} \cup {PlainObj(p) : p \in PlainVals}
ParentArgs == {None} \cup Nodes(Heap)
ObjSeqs == UNION {[1..n -> Objs] : n \in 0..MaxArgs}
NumPlain(xs) == Cardinality({k \in DOMAIN xs : ~IsUnit(xs[k])})
NumNonNode(xs) == Cardinality({k \in DOMAIN xs : ~IsNode(Heap, xs[k])})

\* Leaf(value, parent=par)
NewLeaf ==
  /\ CanStep
  /\ Free(Heap) # {}
  /\ \E p \in PlainVals, par \in ParentArgs :
       LET id == NewId(Heap) IN
       Commit(LeafInit(Heap, id, PlainObj(p), par),
              [NoOp EXCEPT !.op = "Leaf", !.u = id, !.x = PlainObj(p),
                           !.i = par, !.ret = id])

\* Node(children=cs, parent=par)
NewNode ==
  /\ CanStep
  /\ \E cs \in ObjSeqs, par \in ParentArgs :
       /\ Cardinality(Free(Heap)) >= 1 + NumPlain(cs)
       /\ LET id == NewId(Heap)
              r == NodeInit(Heap, id, cs, par)
          IN Commit(r.h, [NoOp EXCEPT !.op = "Node", !.u = id, !.xs = cs,
                                      !.i = par, !.res = r.res,
                                      !.ret = IF r.res = "ok" THEN id ELSE None])

\* u.parent = x
SetParent ==
  /\ CanStep
  /\ \E u \in Units(Heap), x \in Objs \cup {NoneObj} :
       /\ kind[u] # "Node" => Free(Heap) # {}
       /\ LET r == parent_setter(Heap, u, x)
          IN Commit(r.h, [NoOp EXCEPT !.op = "set_parent", !.u = u, !.x = x,
                                      !.res = r.res])

\* u.detach()
Detach ==
  /\ CanStep
  /\ \E u \in Units(Heap) :
       LET r == detach(Heap, u)
       IN Commit(r.h, [NoOp EXCEPT !.op = "detach", !.u = u, !.res = r.res,
                                   !.ret = IF r.res = "ok" THEN u ELSE None])

\* n.children.insert(i, x)
Insert ==
  /\ CanStep
  /\ \E n \in Nodes(Heap), x \in Objs :
       \E i \in 0..Len(children[n]) :
         /\ ~IsNode(Heap, x) => Free(Heap) # {}
         /\ LET r == insert(Heap, n, i, x)
            IN Commit(r.h, [NoOp EXCEPT !.op = "insert", !.u = n, !.x = x,
                                        !.i = i, !.res = r.res])

\* n.children[i] = x
SetItem ==
  /\ CanStep
  /\ \E n \in Nodes(Heap), x \in Objs :
       \E i \in 0..Len(children[n]) :
         /\ ~IsNode(Heap, x) => Free(Heap) # {}
         /\ LET r == setitem(Heap, n, i, x)
            IN Commit(r.h, [NoOp EXCEPT !.op = "setitem", !.u = n, !.x = x,
                                        !.i = i, !.res = r.res])

\* n.children[lo:hi] = xs
SetSlice ==
  /\ CanStep
  /\ \E n \in Nodes(Heap), xs \in ObjSeqs :
       \E lo \in 0..Len(children[n]) :
         \E hi \in lo..Len(children[n]) :
           /\ Cardinality(Free(Heap)) >= NumNonNode(xs)
           /\ LET r == setslice(Heap, n, lo, hi, xs)
              IN Commit(r.h, [NoOp EXCEPT !.op = "setslice", !.u = n, !.xs = xs,
                                          !.i = lo, !.j = hi, !.res = r.res])

\* del n.children[i]
DelItem ==
  /\ CanStep
  /\ \E n \in Nodes(Heap) :
       \E i \in 0..Len(children[n]) :
         LET r == delitem(Heap, n, i)
         IN Commit(r.h, [NoOp EXCEPT !.op = "delitem", !.u = n, !.i = i,
                                     !.res = r.res])

\* del n.children[lo:hi]
DelSlice ==
  /\ CanStep
  /\ \E n \in Nodes(Heap) :
       \E lo \in 0..Len(children[n]) :
         \E hi \in lo..Len(children[n]) :
           LET r == delslice(Heap, n, lo, hi)
           IN Commit(r.h, [NoOp EXCEPT !.op = "delslice", !.u = n, !.i = lo,
                                       !.j = hi, !.res = r.res])

\* n.children = xs
SetChildren ==
  /\ CanStep
  /\ \E n \in Nodes(Heap), xs \in ObjSeqs :
       /\ Cardinality(Free(Heap)) >= NumNonNode(xs)
       /\ LET r == children_setter(Heap, n, xs)
          IN Commit(r.h, [NoOp EXCEPT !.op = "set_children", !.u = n, !.xs = xs,
                                      !.res = r.res])

Next ==
  \/ NewLeaf \/ NewNode \/ SetParent \/ Detach \/ Insert
  \/ SetItem \/ SetSlice \/ DelItem \/ DelSlice \/ SetChildren

Spec == Init /\ [][Next]_vars

\* NodeOrLeaf.path: the unit and its ancestors, from the root down.  Every
\* unit is truthy, so the loop ends at the first _parent that is None.
path(h, u) == Reverse(<<u>> \o iter_ancestors(h, u, Cardinality(DOMAIN h.kind)))

\* NodeOrLeaf.depth
depth(h, u) == Len(path(h, u)) - 1

\* max(xs, default=0)
Max0(S) == IF S = {} THEN 0 ELSE CHOOSE m \in S : \A x \in S : x <= m

\* height: the class attribute 0 of a Leaf, the property of NodeOrLeaf for a
\* Node.
RECURSIVE height(_, _)
height(h, u) ==
  IF h.kind[u] = "Leaf" THEN 0
  ELSE Max0({height(h, h.children[u][k]) : k \in DOMAIN h.children[u]}) + 1

\* ---- queries -------------------------------------------------------------
NOT_GIVEN == [tag |-> "not_given", v |-> 0]

\* _filter(pred, data), applied only when a predicate was passed
Filtered(hasPred, pred, data) ==
  IF hasPred THEN SelectSeq(data, LAMBDA c : c \in pred) ELSE data

\* find_all comparing the size with min_count by <= instead of <.
find_all_strict_min(data, hasPred, pred, min_count, max_count) ==
  LET found == Filtered(hasPred, pred, data)
      size == Len(found)
  IN IF size <= min_count THEN [res |-> "ValueError", out |-> <<>>]
     ELSE IF size > max_count THEN [res |-> "ValueError", out |-> <<>>]
     ELSE [res |-> "ok", out |-> found]

\* NodeOrLeaf.find_all, after data = node.iter_children(**kwargs)
find_all(data, hasPred, pred, min_count, max_count) ==
  LET found == Filtered(hasPred, pred, data)
      size == Len(found)
  IN IF size < min_count THEN [res |-> "ValueError", out |-> <<>>]
     ELSE IF size > max_count THEN [res |-> "ValueError", out |-> <<>>]
     ELSE [res |-> "ok", out |-> found]

\* islice(data, 1)
islice1(data) == IF data = <<>> THEN <<>> ELSE <<Head(data)>>

\* find treating a default of None as no default.
find_none_is_missing(data, hasPred, pred, default) ==
  LET first == islice1(Filtered(hasPred, pred, data))
  IN IF Len(first) = 1 THEN [res |-> "ok", ret |-> UnitObj(first[1])]
     ELSE IF default \in {NOT_GIVEN, NoneObj}
          THEN [res |-> "ValueError", ret |-> NoneObj]
     ELSE [res |-> "ok", ret |-> default]

\* find unpacking the whole of the filtered data, which fails unless there
\* is exactly one match.
find_single(data, hasPred, pred, default) ==
  LET found == Filtered(hasPred, pred, data)
  IN IF Len(found) = 1 THEN [res |-> "ok", ret |-> UnitObj(found[1])]
     ELSE IF default = NOT_GIVEN THEN [res |-> "ValueError", ret |-> NoneObj]
     ELSE [res |-> "ok", ret |-> default]

\* NodeOrLeaf.find, after data = node.iter_children(**kwargs).  Unpacking
\* `node, = islice(data, 1)` raises ValueError when the slice is empty.
find(data, hasPred, pred, default) ==
  LET first == islice1(Filtered(hasPred, pred, data))
  IN IF Len(first) = 1 THEN [res |-> "ok", ret |-> UnitObj(first[1])]
     ELSE IF default = NOT_GIVEN THEN [res |-> "ValueError", ret |-> NoneObj]
     ELSE [res |-> "ok", ret |-> default]

\* ---- trees built by constructor expressions -------------------------------
MaxTreeUnits == 6  \* units of the tree a query runs on
MaxDepthArg == 1   \* max_depth arguments are 0..MaxDepthArg or INF
MaxCount == 2      \* min_count and max_count arguments are up to MaxCount

TreeIds == 1..MaxTreeUnits

\* Expressions of n units: a plain value (a Leaf once constructed) or
\* Node([...]) over the expressions of its children; Node([]) stands alone.
\* No traversal or query reads a payload, so one plain value stands for all.
RECURSIVE TreesOfSize(_)
RECURSIVE ForestsOfSize(_)
TreesOfSize(n) ==
  IF n = 1 THEN {PlainObj(CHOOSE p \in PlainVals : TRUE)}
  ELSE {[tag |-> "Node", v |-> f] : f \in ForestsOfSize(n - 1)}

ForestsOfSize(m) ==
  IF m = 0 THEN {<<>>}
  ELSE UNION {{<<t>> \o f : t \in TreesOfSize(k), f \in ForestsOfSize(m - k)} :
              k \in 1..m}

TreeExprs ==
  {[tag |-> "Node", v |-> <<>>]} \cup UNION {TreesOfSize(n) : n \in 1..MaxTreeUnits}

EmptyHeap(ids) ==
  [kind |-> [u \in ids |-> "free"], parent |-> [u \in ids |-> None],
   children |-> [u \in ids |-> <<>>], value |-> [u \in ids |-> NoneObj]]

\* Evaluation of an expression: the arguments from left to right, then the
\* constructor.  A plain value among the children is left to Node.__init__.
RECURSIVE Eval(_, _)
RECURSIVE EvalArgs(_, _, _, _)
EvalArgs(h, es, k, acc) ==
  IF k > Len(es) THEN [h |-> h, xs |-> acc]
  ELSE IF es[k].tag = "plain" THEN EvalArgs(h, es, k + 1, Append(acc, es[k]))
  ELSE LET r == Eval(h, es[k])
       IN EvalArgs(r.h, es, k + 1, Append(acc, UnitObj(r.unit)))

Eval(h, e) ==
  IF e.tag = "plain"
  THEN LET id == NewId(h) IN [h |-> LeafInit(h, id, e, None), unit |-> id]
  ELSE LET a == EvalArgs(h, e.v, 1, <<>>)
           id == NewId(a.h)
       IN [h |-> NodeInit(a.h, id, a.xs, None).h, unit |-> id]

QNoOp == [op |-> "init", u |-> None, how |-> "None", this |-> "None",
          kw |-> FALSE, keep |-> {}, max_depth |-> INF,
          hasPred |-> FALSE, pred |-> {}, min_count |-> 0, max_count |-> INF,
          default |-> NOT_GIVEN, res |-> "ok", out |-> <<>>, ret |-> NoneObj]

TreeInit ==
  \E e \in TreeExprs :
    LET h == Eval(EmptyHeap(TreeIds), e).h IN
    /\ kind = h.kind
    /\ parent = h.parent
    /\ children = h.children
    /\ value = h.value
    /\ last = QNoOp
    /\ step = 0
    /\ call = NoCall

\* A query leaves the tree as it is.
CanAsk == step = 0

Answer(l) ==
  /\ last' = l
  /\ step' = step + 1
  /\ UNCHANGED <<kind, parent, children, value, call>>

Hows == {"None", "pre-order", "post-order", "in-order", "out-order", "level-order"}
Selfs == {"None", "True", "False"}
Everything == Units(Heap)
Preds == {Everything} \cup {Everything \ {u} : u \in Everything}
Depths == (0..MaxDepthArg) \cup {INF}

\* node.iter_children(how, self=this, keep=keep, max_depth=max_depth)
IterChildren ==
  /\ CanAsk
  /\ \E node \in Units(Heap), how \in Hows, this \in Selfs :
    \/ Answer([QNoOp EXCEPT !.op = "iter_children", !.u = node, !.how = how,
                 !.this = this, !.keep = Everything,
                 !.out = iter_children(Heap, node, how, this, FALSE,
                                       Everything, INF)])
    \/ \E keep \in Preds, max_depth \in Depths :
         Answer([QNoOp EXCEPT !.op = "iter_children", !.u = node, !.how = how,
                   !.this = this, !.kw = TRUE, !.keep = keep,
                   !.max_depth = max_depth,
                   !.out = iter_children(Heap, node, how, this, TRUE, keep,
                                         max_depth)])

\* node.iter_group(self=this, keep=keep, max_depth=max_depth)
IterGroup ==
  /\ CanAsk
  /\ \E node \in Units(Heap), this \in Selfs, keep \in Preds, max_depth \in Depths :
    Answer([QNoOp EXCEPT !.op = "iter_group", !.u = node, !.how = "level-order",
              !.this = this, !.kw = TRUE, !.keep = keep, !.max_depth = max_depth,
              !.out = iter_group(Heap, node, this, keep, max_depth)])

FindHows == {"None", "post-order", "level-order"}
FindSelfs == {"None", "True"}
MinCounts == 0..MaxCount
MaxCounts == (1..MaxCount) \cup {INF}
Defaults == {NOT_GIVEN, NoneObj} \cup {PlainObj(p) : p \in PlainVals}

\* node.find_all(pred, min_count=a, max_count=b, how=how, self=this)
FindAll ==
  /\ CanAsk
  /\ \E node \in Units(Heap), how \in FindHows, this \in FindSelfs,
        hasPred \in BOOLEAN, a \in MinCounts, b \in MaxCounts :
       \E pred \in IF hasPred THEN Preds ELSE {Everything} :
         LET data == iter_children(Heap, node, how, this, FALSE, Everything, INF)
             r == find_all(data, hasPred, pred, a, b)
         IN Answer([QNoOp EXCEPT !.op = "find_all", !.u = node, !.how = how,
                      !.this = this, !.keep = Everything, !.hasPred = hasPred,
                      !.pred = pred, !.min_count = a, !.max_count = b,
                      !.res = r.res, !.out = r.out])

\* node.find(pred, default=default, how=how, self=this)
Find ==
  /\ CanAsk
  /\ \E node \in Units(Heap), how \in FindHows, this \in FindSelfs,
        hasPred \in BOOLEAN, default \in Defaults :
       \E pred \in IF hasPred THEN Preds ELSE {Everything} :
         LET data == iter_children(Heap, node, how, this, FALSE, Everything, INF)
             r == find(data, hasPred, pred, default)
         IN Answer([QNoOp EXCEPT !.op = "find", !.u = node, !.how = how,
                      !.this = this, !.keep = Everything, !.hasPred = hasPred,
                      !.pred = pred, !.default = default,
                      !.res = r.res, !.ret = r.ret])

\* node.height
Height ==
  /\ CanAsk
  /\ \E node \in Units(Heap) :
       Answer([QNoOp EXCEPT !.op = "height", !.u = node,
                 !.ret = PlainObj(height(Heap, node))])

\* node.depth
Depth ==
  /\ CanAsk
  /\ \E node \in Units(Heap) :
       Answer([QNoOp EXCEPT !.op = "depth", !.u = node,
                 !.ret = PlainObj(depth(Heap, node))])

TreeNext == IterChildren \/ IterGroup \/ FindAll \/ Find \/ Height \/ Depth

TreeSpec == TreeInit /\ [][TreeNext]_vars

\* ---- retry ---------------------------------------------------------------
MaxRetry == 3      \* retry(n, func) is called with n in 1..MaxRetry
MaxArg == 2        \* the wrapped function is called with an argument in 1..MaxArg

\* What a call of func does: return, raise an exception matching `error`,
\* or raise another exception.  A script fixes it for each successive call.
Outcomes == {"ok", "suppressed", "other"}
Scripts == [1..(MaxRetry + 1) -> Outcomes]

\* range(n) instead of range(n - 1)
AttemptsOneMore(n) == n

\* range(n - 1): the number of calls made inside the try block
Attempts(n) == n - 1

RetryInit ==
  /\ kind = [u \in Ids |-> "free"]
  /\ parent = [u \in Ids |-> None]
  /\ children = [u \in Ids |-> <<>>]
  /\ value = [u \in Ids |-> NoneObj]
  /\ last = NoOp
  /\ step = 0
  /\ \E n \in 1..MaxRetry, sc \in Scripts, a \in 1..MaxArg :
       call = [pc |-> "loop", n |-> n, script |-> sc, arg |-> a, i |-> 0,
               log |-> <<>>, res |-> "none", ret |-> 0]

\* One pass of `for _ in range(n - 1)`: func is called; its result is
\* returned, an exception matching `error` is dropped, any other propagates.
RetryTry ==
  /\ call.pc = "loop"
  /\ call.i < Attempts(call.n)
  /\ LET k == Len(call.log) + 1
         o == call.script[k]
     IN call' = IF o = "ok"
                THEN [call EXCEPT !.log = Append(@, call.arg), !.pc = "done",
                                  !.res = "returned", !.ret = k]
                ELSE IF o = "suppressed"
                THEN [call EXCEPT !.log = Append(@, call.arg), !.i = @ + 1]
                ELSE [call EXCEPT !.log = Append(@, call.arg), !.pc = "done",
                                  !.res = "raised", !.ret = k]
  /\ UNCHANGED <<kind, parent, children, value, last, step>>

\* `return func(*args, **kwargs)` after the loop: whatever func does is the
\* outcome of the call.
RetryLast ==
  /\ call.pc = "loop"
  /\ ~(call.i < Attempts(call.n))
  /\ LET k == Len(call.log) + 1
     IN call' = [call EXCEPT !.log = Append(@, call.arg), !.pc = "done",
                   !.res = IF call.script[k] = "ok" THEN "returned" ELSE "raised",
                   !.ret = k]
  /\ UNCHANGED <<kind, parent, children, value, last, step>>

RetryNext == RetryTry \/ RetryLast

RetrySpec == RetryInit /\ [][RetryNext]_vars

\* ---- vocabulary of the properties ---------------------------------------
Count(u, s) == Cardinality({k \in DOMAIN s : s[k] = u})
Without(s, u) == SelectSeq(s, LAMBDA e : e # u)
Drop(s, lo, hi) == SubSeq(s, 1, lo) \o SubSeq(s, hi + 1, Len(s))

\* Units below u through child sequences.
RECURSIVE Below(_, _)
Below(S, k) ==
  IF k = 0 THEN S ELSE Below(S \cup UNION {Range(children[w]) : w \in S}, k - 1)

Descendants(u) == Below(Range(children[u]), MaxUnits)

\* a is above u in the tree, through u's back-references or a's child
\* sequences.
IsAbove(a, u) == a \in Range(Ancestors(Heap, u)) \/ u \in Descendants(a)

\* c is what the incoming value x must be stored as: x itself when x is a
\* unit, a Leaf created by this step and holding x otherwise.
CoercedAs(c, x) ==
  IF IsUnit(x) THEN c = x.v
  ELSE c \in Ids /\ kind[c] = "free" /\ kind'[c] = "Leaf" /\ value'[c] = x

AlreadyChild(n, x) == IsUnit(x) /\ x.v \in Range(children[n])
HasParent(x) == IsUnit(x) /\ parent[x.v] # None

\* C1: single ownership. A unit whose back-reference is P occurs exactly
\* once in P's child sequence and in no other child sequence, and every
\* member of a child sequence has the owner as its back-reference.
C1_SingleOwnership ==
  \A u \in Units(Heap) :
    /\ parent[u] # None =>
         /\ Count(u, children[parent[u]]) = 1
         /\ \A n \in Units(Heap) \ {parent[u]} : u \notin Range(children[n])
    /\ \A k \in DOMAIN children[u] : parent[children[u][k]] = u

\* C2: the tree is acyclic. Following back-references from any unit reaches
\* a unit without parent after finitely many steps.
C2_Acyclic ==
  \A u \in Units(Heap) :
    /\ Len(Ancestors(Heap, u)) < MaxUnits
    /\ u \notin Range(Ancestors(Heap, u))
    /\ u \notin Descendants(u)

\* C3: u.parent = P, with P an interior node that is not u, not above u and
\* not below u, succeeds for a Leaf and for a Node; afterwards u itself is
\* the last child of P behind P's earlier children, u.parent is P, and u is
\* no longer a child of its previous parent.
C3_SetParentAttaches ==
  [][LET u == last'.u
         x == last'.x
     IN (/\ last'.op = "set_parent"
         /\ IsNode(Heap, x)
         /\ x.v # u /\ ~IsAbove(x.v, u) /\ ~IsAbove(u, x.v))
        => /\ last'.res = "ok"
           /\ children'[x.v] = Append(children[x.v], u)
           /\ parent'[u] = x.v
           /\ parent[u] # None => u \notin Range(children'[parent[u]])]_vars

\* C4: u.parent = P, with P an interior node that is u, above u or below u,
\* raises ValueError and leaves every back-reference and every child
\* sequence as it was.
C4_SetParentCycleRejected ==
  [][LET u == last'.u
         x == last'.x
     IN (/\ last'.op = "set_parent"
         /\ IsNode(Heap, x)
         /\ (x.v = u \/ IsAbove(x.v, u) \/ IsAbove(u, x.v)))
        => /\ last'.res = "ValueError"
           /\ parent' = parent
           /\ children' = children]_vars

\* C5: u.detach() on a unit attached to P completes, removes u from
\* P.children keeping the others in order, leaves u.parent none and returns
\* u; on a root it changes nothing and returns u.
C5_Detach ==
  [][LET u == last'.u
         P == parent[u]
     IN last'.op = "detach" =>
          /\ (P # None /\ u \in Range(children[P])) =>
               /\ last'.res = "ok" /\ last'.ret = u
               /\ children'[P] = Without(children[P], u)
               /\ parent'[u] = None
          /\ P = None =>
               /\ last'.res = "ok" /\ last'.ret = u
               /\ parent' = parent /\ children' = children]_vars

\* C6: assigning at an index or a slice of N.children stores each incoming
\* unit itself, Leaf or Node, wraps only non-units in a new Leaf holding the
\* value, and raises ValueError, leaving N.children unchanged, when an
\* incoming unit is already a child of N.
C6_SetItemCoerces ==
  [][LET n == last'.u
         x == last'.x
         xs == last'.xs
         i == last'.i
         j == last'.j
     IN /\ (last'.op = "setitem" /\ i < Len(children[n])) =>
             IF AlreadyChild(n, x)
             THEN last'.res = "ValueError" /\ children'[n] = children[n]
             ELSE /\ last'.res = "ok"
                  /\ Len(children'[n]) = Len(children[n])
                  /\ \A k \in DOMAIN children[n] :
                       IF k = i + 1 THEN CoercedAs(children'[n][k], x)
                       ELSE children'[n][k] = children[n][k]
        /\ last'.op = "setslice" =>
             IF \E k \in DOMAIN xs : AlreadyChild(n, xs[k])
             THEN last'.res = "ValueError" /\ children'[n] = children[n]
             ELSE /\ last'.res = "ok"
                  /\ Len(children'[n]) = Len(children[n]) - (j - i) + Len(xs)
                  /\ SubSeq(children'[n], 1, i) = SubSeq(children[n], 1, i)
                  /\ SubSeq(children'[n], i + Len(xs) + 1, Len(children'[n]))
                       = SubSeq(children[n], j + 1, Len(children[n]))
                  /\ \A k \in DOMAIN xs : CoercedAs(children'[n][i + k], xs[k])]_vars

\* C7: N.children.insert(i, x) places the coerced unit at position i, makes
\* the sequence one longer, keeps the previous children in their order, and
\* leaves the inserted unit's back-reference equal to N.
C7_Insert ==
  [][LET n == last'.u
         x == last'.x
         i == last'.i
     IN (last'.op = "insert" /\ ~AlreadyChild(n, x)) =>
          /\ last'.res = "ok"
          /\ Len(children'[n]) = Len(children[n]) + 1
          /\ CoercedAs(children'[n][i + 1], x)
          /\ Drop(children'[n], i, i + 1) = children[n]
          /\ parent'[children'[n][i + 1]] = n]_vars

\* C8: deleting N.children at an index or a slice completes, removes exactly
\* the addressed units keeping the order of the rest, and every removed
\* unit, Leaf or Node, has parent none afterwards.
C8_Delete ==
  [][LET n == last'.u
         i == last'.i
         j == last'.j
     IN /\ (last'.op = "delitem" /\ i < Len(children[n])) =>
             /\ last'.res = "ok"
             /\ children'[n] = Drop(children[n], i, i + 1)
             /\ parent'[children[n][i + 1]] = None
        /\ last'.op = "delslice" =>
             /\ last'.res = "ok"
             /\ children'[n] = Drop(children[n], i, j)
             /\ \A k \in (i + 1)..j : parent'[children[n][k]] = None]_vars

\* C9: N.children = xs, with a member of xs that already has a parent,
\* raises an error and leaves N's child sequence exactly as it was.
C9_BulkReplaceRollsBack ==
  [][LET n == last'.u
         xs == last'.xs
     IN (last'.op = "set_children" /\ \E k \in DOMAIN xs : HasParent(xs[k])) =>
          /\ last'.res \notin {"ok", "hang"}
          /\ children'[n] = children[n]]_vars

\* C10: Node(xs), with a unit in xs that already has a parent, raises an
\* error and every unit passed in keeps the back-reference it had.
C10_FailedConstruction ==
  [][LET xs == last'.xs
     IN (last'.op = "Node" /\ \E k \in DOMAIN xs : HasParent(xs[k])) =>
          /\ last'.res \notin {"ok", "hang"}
          /\ \A k \in DOMAIN xs :
               IsUnit(xs[k]) => parent'[xs[k].v] = parent[xs[k].v]]_vars

\* ---- properties of the traversals and queries ------------------------------
\* Units k child edges below the units of S.
RECURSIVE LevelBelow(_, _)
LevelBelow(S, k) ==
  IF k = 0 THEN S ELSE LevelBelow(UNION {Range(children[w]) : w \in S}, k - 1)

\* Units strictly below u.
Under(u) == UNION {LevelBelow({u}, k) : k \in 1..MaxTreeUnits}

\* The tree of Node([1, 2, Node([3, 4])]): the inner node is built first.
IsExample ==
  /\ Units(Heap) = 1..6
  /\ children[4] = <<5, 6, 1>> /\ children[1] = <<2, 3>>
  /\ \A u \in {2, 3, 5, 6} : kind[u] = "Leaf"

Plain(l) == l.keep = Everything /\ l.max_depth = INF

RECURSIVE PreOrderOf(_)
PreOrderOf(u) ==
  <<u>> \o Flatten([k \in DOMAIN children[u] |-> PreOrderOf(children[u][k])])

RECURSIVE PostOrderOf(_)
PostOrderOf(u) ==
  Flatten([k \in DOMAIN children[u] |-> PostOrderOf(children[u][k])]) \o <<u>>

RECURSIVE InOrderOf(_)
InOrderOf(u) ==
  IF children[u] = <<>> THEN <<u>>
  ELSE InOrderOf(Head(children[u])) \o <<u>>
       \o Flatten([k \in DOMAIN Tail(children[u]) |-> InOrderOf(Tail(children[u])[k])])

RECURSIVE OutOrderOf(_)
OutOrderOf(u) ==
  IF children[u] = <<>> THEN <<u>>
  ELSE LET n == Len(children[u]) IN
       OutOrderOf(children[u][n]) \o <<u>>
       \o Flatten([k \in 1..(n - 1) |-> OutOrderOf(children[u][k])])

\* C11: the pre-order traversal of N including N, with the default predicate
\* and no depth bound, is N followed by the pre-order traversals of its
\* children in child order; for Node([1, 2, Node([3, 4])]) it is
\* N, 1, 2, the inner node, 3, 4.
C11_PreOrder ==
  (/\ last.op = "iter_children" /\ last.this = "True"
   /\ last.how \in {"None", "pre-order"} /\ Plain(last))
  => /\ last.out = PreOrderOf(last.u)
     /\ (IsExample /\ last.u = 4) => last.out = <<4, 5, 6, 1, 2, 3>>

C11_Witness ==
  /\ IsExample /\ last.op = "iter_children" /\ last.how = "pre-order"
  /\ last.this = "True" /\ Plain(last) /\ last.u = 4
  /\ last.out = <<4, 5, 6, 1, 2, 3>>

\* C12: the post-order traversal of N including N, with the default
\* predicate and no depth bound, is the post-order traversals of its
\* children in child order followed by N, so every unit comes after all of
\* its descendants.
C12_PostOrder ==
  (/\ last.op = "iter_children" /\ last.this = "True"
   /\ last.how = "post-order" /\ Plain(last))
  => /\ last.out = PostOrderOf(last.u)
     /\ \A i, j \in DOMAIN last.out :
          last.out[i] \in Under(last.out[j]) => i < j

C12_Witness ==
  /\ IsExample /\ last.op = "iter_children" /\ last.how = "post-order"
  /\ last.this = "True" /\ Plain(last) /\ last.u = 4
  /\ last.out = <<5, 6, 2, 3, 1, 4>>

\* C13: in-order of N is in-order of its first child, then N, then in-order
\* of the other children in order; out-order of N is out-order of its last
\* child, then N, then out-order of the other children in their original
\* order; a unit without children yields just itself in both.
C13_InOutOrder ==
  (last.op = "iter_children" /\ last.this = "True" /\ Plain(last))
  => /\ last.how = "in-order" => last.out = InOrderOf(last.u)
     /\ last.how = "out-order" => last.out = OutOrderOf(last.u)
     /\ (last.how \in {"in-order", "out-order"} /\ children[last.u] = <<>>)
          => last.out = <<last.u>>

C13_Witness ==
  /\ IsExample /\ last.op = "iter_children" /\ last.how = "out-order"
  /\ last.this = "True" /\ Plain(last) /\ last.u = 4
  /\ last.out = <<3, 1, 2, 4, 5, 6>>

\* Units k child edges below the units of S that pass keep together with
\* every unit between them and S.
RECURSIVE KeptLevel(_, _, _)
KeptLevel(S, k, keep) ==
  IF k = 0 THEN S \cap keep
  ELSE KeptLevel(UNION {Range(children[w]) : w \in S \cap keep}, k - 1, keep)

\* Position of u in the sequence s (0 when absent).
IndexIn(s, u) == IF u \in Range(s) THEN CHOOSE k \in DOMAIN s : s[k] = u ELSE 0

\* Number of the generation yielded at position i of a grouped traversal.
Gen(l, i) == IF Truthy(l.this) THEN i - 1 ELSE i

\* Every unit of generation k has depth N.depth + k.
LevelDepths(l) ==
  \A i \in DOMAIN l.out : \A j \in DOMAIN l.out[i] :
    depth(Heap, l.out[i][j]) = depth(Heap, l.u) + Gen(l, i)

\* A generation is in left-to-right child order, and the flat iterator is
\* the concatenation of the generations.
LevelShape(l) ==
  /\ \A i \in DOMAIN l.out : \A j1, j2 \in DOMAIN l.out[i] :
       j1 < j2 => IndexIn(PreOrderOf(l.u), l.out[i][j1])
                    < IndexIn(PreOrderOf(l.u), l.out[i][j2])
  /\ _iter_children_level_order(Heap, l.u, l.this, l.keep, l.max_depth)
       = Flatten(l.out)

\* C14 as stated: every unit of generation k has depth N.depth + k, every
\* descendant of N at that depth that passes the predicate is in generation
\* k, a generation is in left-to-right child order, and the flat level-order
\* iterator is the concatenation of the generations.
C14_LevelOrderAsStated ==
  last.op = "iter_group" =>
    /\ LevelDepths(last)
    /\ LevelShape(last)
    /\ \A i \in DOMAIN last.out :
         (LevelBelow({last.u}, Gen(last, i)) \cap last.keep) \subseteq Range(last.out[i])

\* C14, amended: generation k holds exactly the units k child edges below N
\* that pass the predicate together with every unit between N and them (a
\* unit below a unit that fails the predicate is in no generation); a
\* generation is in left-to-right child order, and the flat level-order
\* iterator is the concatenation of the generations.
C14_LevelOrder ==
  last.op = "iter_group" =>
    /\ LevelShape(last)
    /\ \A i \in DOMAIN last.out :
         KeptLevel({last.u}, Gen(last, i), last.keep) = Range(last.out[i])

C14_Witness ==
  /\ Units(Heap) = 1..5
  /\ children[5] = <<1, 3>> /\ children[1] = <<2>> /\ children[3] = <<4>>
  /\ last.op = "iter_group" /\ last.u = 5 /\ last.this = "True"
  /\ last.keep = Everything \ {1} /\ last.max_depth = INF
  /\ last.out = << <<5>>, <<3>>, <<4>> >>

\* C15: in each of the five orders a unit is yielded only if it and every
\* unit between the starting unit and it pass the predicate; when the
\* starting unit fails it, nothing is yielded.
C15_Pruning ==
  (last.op = "iter_children" /\ last.kw)
  => /\ \A i \in DOMAIN last.out :
          \E k \in 0..MaxTreeUnits : last.out[i] \in KeptLevel({last.u}, k, last.keep)
     /\ last.u \notin last.keep => last.out = <<>>

C15_Witness ==
  /\ IsExample /\ last.op = "iter_children" /\ last.kw /\ last.u = 4
  /\ last.how = "level-order" /\ last.this = "True"
  /\ last.keep = Everything \ {1} /\ last.max_depth = INF
  /\ last.out = <<4, 5, 6>>

\* The units a query traverses and those among them that match.
Traversed(l) == iter_children(Heap, l.u, l.how, l.this, FALSE, Everything, INF)
Matches(l) == SelectSeq(Traversed(l), LAMBDA c : l.hasPred => c \in l.pred)

\* C16: find_all returns the traversed units that satisfy pred, in traversal
\* order, when their number is within [min_count, max_count], and raises
\* ValueError when it is below or above; with 2 and 2, one match raises and
\* two matches are both returned.
C16_FindAll ==
  last.op = "find_all" =>
    LET n == Len(Matches(last)) IN
    /\ (last.min_count <= n /\ n <= last.max_count)
         => last.res = "ok" /\ last.out = Matches(last)
    /\ (n < last.min_count \/ n > last.max_count) => last.res = "ValueError"
    /\ (last.min_count = 2 /\ last.max_count = 2 /\ n = 1) => last.res = "ValueError"
    /\ (last.min_count = 2 /\ last.max_count = 2 /\ n = 2)
         => last.res = "ok" /\ Len(last.out) = 2

C16_Witness ==
  /\ last.op = "find_all" /\ last.min_count = 2 /\ last.max_count = 2
  /\ last.hasPred /\ Len(Matches(last)) = 2 /\ Len(Traversed(last)) = 3
  /\ last.res = "ok" /\ last.out = Matches(last)

\* C17: find raises ValueError when nothing matches and no default was
\* passed, returns the default, whatever it is (None included), when nothing
\* matches, and returns the match when exactly one unit matches.
C17_Find ==
  last.op = "find" =>
    LET n == Len(Matches(last)) IN
    /\ (n = 0 /\ last.default = NOT_GIVEN) => last.res = "ValueError"
    /\ (n = 0 /\ last.default # NOT_GIVEN)
         => last.res = "ok" /\ last.ret = last.default
    /\ n = 1 => last.res = "ok" /\ last.ret = UnitObj(Matches(last)[1])

C17_Witness ==
  /\ last.op = "find" /\ last.hasPred /\ Len(Traversed(last)) > 0
  /\ Len(Matches(last)) = 0 /\ last.default = NoneObj
  /\ last.res = "ok" /\ last.ret = NoneObj

C20_DepthBound ==
  (/\ last.op = "iter_children" /\ last.kw /\ last.this = "True"
   /\ last.max_depth # INF)
  => Range(last.out) = UNION {KeptLevel({last.u}, k, last.keep) : k \in 0..last.max_depth}

\* The call of func that decides a call of retry(n, func): the first that
\* does not raise a suppressed error, the n-th when there is none before.
Decisive(c) ==
  CHOOSE k \in 1..c.n :
    /\ k = c.n \/ c.script[k] # "suppressed"
    /\ \A m \in 1..(k - 1) : c.script[m] = "suppressed"

\* C19: retry(n, func) with n >= 1 calls func at most n times, each time with
\* the same arguments; it returns the result of the first call that does not
\* raise a suppressed error and calls no more; after n-1 suppressed errors
\* the n-th call's result or exception is the outcome; an exception that
\* does not match `error` propagates at once.
C19_Retry ==
  call.pc # "idle" =>
    /\ Len(call.log) <= call.n
    /\ \A k \in DOMAIN call.log : call.log[k] = call.arg
    /\ call.pc = "loop" => \A k \in DOMAIN call.log : call.script[k] = "suppressed"
    /\ call.pc = "done" =>
         /\ Len(call.log) = Decisive(call)
         /\ call.ret = Decisive(call)
         /\ call.res = IF call.script[Decisive(call)] = "ok" THEN "returned"
                       ELSE "raised"

C19_Witness ==
  /\ call.pc = "done" /\ call.n = 3
  /\ call.script[1] = "suppressed" /\ call.script[2] = "suppressed"
  /\ call.script[3] = "suppressed"
  /\ Len(call.log) = 3 /\ call.res = "raised" /\ call.ret = 3

\* Edges on the longest way down from u to a unit without children.
RECURSIVE LongestDown(_)
LongestDown(u) ==
  IF children[u] = <<>> THEN 0
  ELSE 1 + Max0({LongestDown(children[u][k]) : k \in DOMAIN children[u]})

\* Parent links from u to the root.
RECURSIVE LinksToRoot(_)
LinksToRoot(u) == IF parent[u] = None THEN 0 ELSE 1 + LinksToRoot(parent[u])

\* C21: height is the number of edges on the longest downward path to a unit
\* without children (0 for a Leaf and for any unit with no children), depth
\* is the number of parent links to the root; for Node([1, 2, Node([3, 4])])
\* N.height is 2 and N.children[2].depth is 1.
C21_HeightDepth ==
  /\ last.op = "height" =>
       /\ last.ret = PlainObj(LongestDown(last.u))
       /\ (IsExample /\ last.u = 4) => last.ret = PlainObj(2)
  /\ last.op = "depth" =>
       /\ last.ret = PlainObj(LinksToRoot(last.u))
       /\ (IsExample /\ last.u = children[4][3]) => last.ret = PlainObj(1)

\* C22: called without keyword options other than self, every order yields
\* the starting unit iff self is true; with self omitted no order yields it.
C22_IncludeSelf ==
  (last.op = "iter_children" /\ ~last.kw)
  => (last.u \in Range(last.out) <=> last.this = "True")

====
